---------------------------- MODULE Spec2Model ----------------------------
(***************************************************************************)
(* Model of the delivery pipeline of rss_to_telegram.py: one process run   *)
(* of run_rss_to_telegram() is a sequence of steps                         *)
(*     load_state -> fetch_new_articles/filter/sort ->                     *)
(*     (build summary, send_telegram_message, record)* -> save_state       *)
(* over the ledger file STATE_FILE, the feed sources and the Telegram sink.*)
(*                                                                         *)
(* An article is modelled by its "id", "published", "title" and "summary"  *)
(* fields: the first two are what the control flow of a run reads, the     *)
(* last two are what build_rag_summary reads and the history record keeps  *)
(* (link is carried into the message and the record and never read).       *)
(* Strings that are compared (published) are sequences of character codes  *)
(* compared lexically, as Python compares str.  A feed item keeps its      *)
(* published string and its texts: they are functions of the item's id.    *)
(*                                                                         *)
(* The text functions (text_to_tokens, simple_similarity, summarize_text,  *)
(* build_rag_summary) work on texts as sequences of characters.  A run     *)
(* calls build_rag_summary in every iteration of its loop; TextSpec calls  *)
(* each of them once, on inputs drawn from bounded sets.                   *)
(***************************************************************************)
EXTENDS Integers, Sequences, FiniteSets, TLC

(***************************************************************************)
(* Bounds of the model.                                                    *)
(***************************************************************************)
MaxFeed == 3      \* most entries the feed sources return in one fetch
MaxRuns == 2      \* process runs explored one after the other
MaxCap  == 2      \* largest value of MAX_MESSAGES explored
MaxText == 7      \* longest text given to summarize_text
MaxSim  == 3      \* longest text given to simple_similarity
MaxCorpus == 4    \* longest history given to build_rag_summary

Ids == {"a", "b"}

\* The title and summary the sources serve for each item: item "a" is
\* titled "a" and says "b", item "b" is titled "b " and says "a".
TitleOf == [i \in Ids |-> IF i = "a" THEN <<"a">> ELSE <<"b", " ">>]
SummaryOf == [i \in Ids |-> IF i = "a" THEN <<"b">> ELSE <<"a">>]

\* published strings "", "10", "2": lexically "" < "10" < "2".
Pubs == {<< >>, <<1, 0>>, <<2>>}

\* What the sources can serve: the ids of the entries, in fetch order.
Feeds == UNION {[1..n -> Ids] : n \in 0..MaxFeed}

VARIABLES
    MAX_TELEGRAM_MESSAGES_PER_RUN, \* the cap read from the environment
    pubOf,       \* the published string of each feed item
    feed,        \* what the feed sources serve to the current/last run
    file,        \* STATE_FILE on disk
    pc,          \* position of the process: "idle", "loaded", "loop"
    seen_ids,    \* run_rss_to_telegram: local set seen_ids
    history,     \* run_rss_to_telegram: local list history
    all_new,     \* run_rss_to_telegram: local list all_new
    unseen,      \* local list unseen, as positions into all_new
    count_sent,  \* local counter count_sent (also the loop index)
    runs,        \* number of runs started
    outcome,     \* how the current/last run stands
    file0,       \* STATE_FILE as it was when the current/last run started
    sent,        \* calls of send_telegram_message made by the current/last run
    writes,      \* calls of save_state made by the current/last run
    prevSentIds, \* ids handed to the sink by the run before
    fromEmpty,   \* TRUE iff STATE_FILE did not exist initially
    call,        \* a call of a text function: its name and arguments
    ret          \* << >> before the call returns, then <<its value>>

vars == <<MAX_TELEGRAM_MESSAGES_PER_RUN, pubOf, feed, file, pc, seen_ids, history,
          all_new, unseen, count_sent, runs, outcome, file0, sent, writes,
          prevSentIds, fromEmpty, call, ret>>

----------------------------------------------------------------------------
(***************************************************************************)
(* Helpers.                                                                *)
(***************************************************************************)
Range(s) == {s[i] : i \in 1..Len(s)}

Min(a, b) == IF a <= b THEN a ELSE b

NoDup(s) == \A i, j \in 1..Len(s) : s[i] = s[j] => i = j

IsPrefix(s, t) == Len(s) <= Len(t) /\ \A i \in 1..Len(s) : s[i] = t[i]

\* Python's str "<": compare code points left to right, a proper prefix is smaller.
RECURSIVE LexLess(_, _)
LexLess(s, t) ==
    IF t = << >> THEN FALSE
    ELSE IF s = << >> THEN TRUE
    ELSE IF Head(s) # Head(t) THEN Head(s) < Head(t)
    ELSE LexLess(Tail(s), Tail(t))

\* list(a_set): every element once, in an order the program does not control.
ListsOfSet(S) == {s \in [1..Cardinality(S) -> S] : Range(s) = S}

----------------------------------------------------------------------------
(***************************************************************************)
(* STATE_FILE.                                                             *)
(*   kind "absent"  : os.path.exists(path) is False                        *)
(*   kind "garbled" : the file exists and json.load raises                 *)
(*   kind "json"    : the file holds a JSON object with the keys in `keys` *)
(***************************************************************************)
LedgerKeys == {"seen_ids", "articles"}

AbsentFile  == [kind |-> "absent",  keys |-> {}, seen_ids |-> << >>, articles |-> << >>]
GarbledFile == [kind |-> "garbled", keys |-> {}, seen_ids |-> << >>, articles |-> << >>]

JsonFile(keys, ids, arts) ==
    [kind |-> "json", keys |-> keys,
     seen_ids |-> IF "seen_ids" \in keys THEN ids ELSE << >>,
     articles |-> IF "articles" \in keys THEN arts ELSE << >>]

\* A ledger written by an earlier run that delivered one article, whole or
\* with keys lost.
OldRecord(pub) ==
    [id |-> "a", published |-> pub["a"], title |-> <<"a">>, summary |-> <<"b">>]

InitFiles(pub) ==
    {AbsentFile, GarbledFile}
      \cup {JsonFile(k, <<"a">>, <<OldRecord(pub)>>) : k \in SUBSET LedgerKeys}

\* state.get("seen_ids", []) and state.get("articles", []) on a loaded file
StoredSeen(f) == IF "seen_ids" \in f.keys THEN Range(f.seen_ids) ELSE {}
StoredArticles(f) == IF "articles" \in f.keys THEN f.articles ELSE << >>

----------------------------------------------------------------------------
(***************************************************************************)
(* unseen.sort(key=parse_pub, reverse=True): a stable sort, descending by  *)
(* the published string; list.sort keeps equal keys in their input order   *)
(* also under reverse=True.                                                *)
(***************************************************************************)
parse_pub(a) == a.published

\* ComesBefore with equal keys in reverse input order.
ComesBefore_TiesReversed(a, i, b, j) ==
    \/ LexLess(parse_pub(b), parse_pub(a))
    \/ parse_pub(a) = parse_pub(b) /\ i > j

\* The element at input index i goes before the one at input index j: its key
\* is greater, or the keys are equal and it came first.
ComesBefore(a, i, b, j) ==
    \/ LexLess(parse_pub(b), parse_pub(a))
    \/ parse_pub(a) = parse_pub(b) /\ i < j

\* The sorted list: the element with k - 1 elements before it is at place k.
SortDesc(s, arts) ==
    [k \in 1..Len(s) |->
        s[CHOOSE i \in 1..Len(s) :
            Cardinality({j \in 1..Len(s) :
                ComesBefore(arts[s[j]], j, arts[s[i]], i)}) = k - 1]]

\* [a for a in all_new if a["id"] not in seen_ids], as positions of all_new
RECURSIVE FilterUnseen(_, _, _)
FilterUnseen(arts, seen, i) ==
    IF i > Len(arts) THEN << >>
    ELSE IF arts[i].id \notin seen
         THEN <<i>> \o FilterUnseen(arts, seen, i + 1)
         ELSE FilterUnseen(arts, seen, i + 1)

----------------------------------------------------------------------------
(***************************************************************************)
(* Texts: sequences of one-character strings.                              *)
(***************************************************************************)
Spaces == {" "}                      \* \s
Punct  == {".", "!", "?"}            \* [.!?]
NonWord == Spaces \cup Punct \cup {"|", ":", ";"}   \* what \w does not match

IsWord(c) == c \notin NonWord

\* str.lower() on the letters of the model
Lower(c) ==
    CASE c = "A" -> "a"
      [] c = "B" -> "b"
      [] c = "R" -> "r"
      [] OTHER -> c

LowerStr(t) == [i \in 1..Len(t) |-> Lower(t[i])]

\* The texts of length at most n over the characters cs.
TextsOver(cs, n) == UNION {[1..k -> cs] : k \in 0..n}

\* The last position of the run of word characters (of whitespace) that
\* starts at i: the first position from i on that ends the text or stands
\* before a character of the other kind.
WordEnd(t, i) ==
    CHOOSE j \in i..Len(t) :
        /\ j = Len(t) \/ ~IsWord(t[j + 1])
        /\ \A m \in i..(j - 1) : IsWord(t[m + 1])

SpaceEnd(t, i) ==
    CHOOSE j \in i..Len(t) :
        /\ j = Len(t) \/ t[j + 1] \notin Spaces
        /\ \A m \in i..(j - 1) : t[m + 1] \in Spaces

\* The element of a set of one element.  A local variable of the program is
\* written  Only({e(x) : x \in {v}}):  e(v) with v computed once and then
\* read, where TLC would compute an argument or a LET definition anew at
\* each use when it evaluates ENABLED.
Only(S) == CHOOSE x \in S : TRUE

\* Lines 35-36: the set of the lower-cased maximal runs of word characters.
findall_lower(text) ==
    LET starts == {i \in 1..Len(text) :
                     IsWord(text[i]) /\ (i = 1 \/ ~IsWord(text[i - 1]))}
    IN {LowerStr(SubSeq(text, i, WordEnd(text, i))) : i \in starts}

text_to_tokens(text) == Only({findall_lower(t) : t \in {text}})

\* A float that is the quotient of two small integers, kept as the quotient;
\* 0.0 is 0/1.
Zero == [num |-> 0, den |-> 1]
ScoreLess(x, y) == x.num * y.den < y.num * x.den
ScoreEq(x, y) == x.num * y.den = y.num * x.den

\* simple_similarity dividing by the size of the first token set only.
simple_similarity_OverFirst(a, b) ==
    LET ta == text_to_tokens(a)
        tb == text_to_tokens(b)
    IN IF ta = {} \/ tb = {} THEN Zero
       ELSE [num |-> Cardinality(ta \cap tb), den |-> 2 * Cardinality(ta)]

\* simple_similarity dividing by the size of the union (Jaccard).
simple_similarity_Jaccard(a, b) ==
    LET ta == text_to_tokens(a)
        tb == text_to_tokens(b)
    IN IF ta = {} \/ tb = {} THEN Zero
       ELSE [num |-> Cardinality(ta \cap tb), den |-> Cardinality(ta \cup tb)]

\* Lines 39-44.
Quotient(ta, tb) ==
    IF ta = {} \/ tb = {} THEN Zero
    ELSE [num |-> Cardinality(ta \cap tb),
          den |-> Cardinality(ta) + Cardinality(tb)]

simple_similarity(a, b) ==
    Only({Quotient(ta, tb) : ta \in {text_to_tokens(a)},
                             tb \in {text_to_tokens(b)}})

\* str.strip() and str.rstrip()
RStrip(t) ==
    LET keep == {i \in 1..Len(t) : t[i] \notin Spaces} IN
        IF keep = {} THEN << >>
        ELSE SubSeq(t, 1, CHOOSE i \in keep : \A j \in keep : j <= i)

Strip(t) ==
    LET keep == {i \in 1..Len(t) : t[i] \notin Spaces} IN
        IF keep = {} THEN << >>
        ELSE SubSeq(t, CHOOSE i \in keep : \A j \in keep : i <= j,
                       CHOOSE i \in keep : \A j \in keep : j <= i)

\* " ".join(re.split(r"(?<=[.!?])\s+", text.strip())[:3]): lines 50-51.  A
\* separator is a whole run of whitespace that follows a punctuation mark.
JoinFirst3(text) ==
    LET t == Strip(text)
        n == Len(t)
        seps == {i \in 2..n : t[i] \in Spaces /\ t[i - 1] \in Punct}
        \* the k-th separator starts at Sep(k)
        Sep(k) == CHOOSE i \in seps : Cardinality({j \in seps : j < i}) = k - 1
        After(k) == SpaceEnd(t, Sep(k)) + 1
        m == Cardinality(seps)
    IN IF m = 0 THEN t
       ELSE IF m = 1
            THEN SubSeq(t, 1, Sep(1) - 1) \o <<" ">> \o SubSeq(t, After(1), n)
            ELSE SubSeq(t, 1, Sep(1) - 1) \o <<" ">>
                   \o SubSeq(t, After(1), Sep(2) - 1) \o <<" ">>
                   \o SubSeq(t, After(2), IF m = 2 THEN n ELSE Sep(3) - 1)

Ellipsis == <<".", ".", ".">>

\* Truncate without the rstrip().
Truncate_NoRStrip(summary, max_chars) ==
    SubSeq(summary, 1, max_chars) \o Ellipsis

\* summary[:max_chars].rstrip() + "...": line 53
Truncate(summary, max_chars) ==
    RStrip(SubSeq(summary, 1, max_chars)) \o Ellipsis

\* Lines 47-54.
summarize_text(text, max_chars) ==
    IF text = << >> THEN << >>
    ELSE LET summary == JoinFirst3(text) IN
           IF Len(summary) > max_chars THEN Truncate(summary, max_chars)
           ELSE summary

\* The text of n copies of the character c.
Rep(c, n) == [i \in 1..n |-> c]

\* s.join(list) of str
RECURSIVE Join(_, _)
Join(strs, s) ==
    IF strs = << >> THEN << >>
    ELSE IF Len(strs) = 1 THEN strs[1]
    ELSE strs[1] \o s \o Join(Tail(strs), s)

DefaultMaxChars == 300    \* summarize_text(text, max_chars=300)
TopK == 3                 \* scores[:3]
MaxTitles == 2            \* rel_titles[:2]
Budget == 350             \* len(base_summary) + len(extra) + 3 < 350

RelatedTo == <<"R", "e", "l", "a", "t", "e", "d", " ", "t", "o", ":", " ">>
Bar == <<" ", "|", " ">>
Semi == <<";", " ">>

\* Lines 57-58 and 61: title + " " + summary
RecordText(r) == r.title \o <<" ">> \o r.summary

\* Lines 61-64: the scores of the first k records of context_articles, each
\* appended in its turn.
RECURSIVE Scores(_, _, _)
Scores(article, context_articles, k) ==
    IF k = 0 THEN << >>
    ELSE Append(Scores(article, context_articles, k - 1),
                simple_similarity(RecordText(article),
                                  RecordText(context_articles[k])))

\* ScoreBefore with equal scores in reverse input order.
ScoreBefore_TiesReversed(sc, i, j) ==
    \/ ScoreLess(sc[j], sc[i])
    \/ ScoreEq(sc[i], sc[j]) /\ i > j

\* scores.sort(key=lambda x: x[0], reverse=True), line 65: the pair at input
\* index i goes before the pair at j when its score is greater, or the scores
\* are equal and it came first (list.sort is stable under reverse=True).
ScoreBefore(sc, i, j) ==
    \/ ScoreLess(sc[j], sc[i])
    \/ ScoreEq(sc[i], sc[j]) /\ i < j

\* Lines 59-66: ctx, as positions into context_articles.
\* Lines 65-66 on the list sc of scores: the positions of the first TopK
\* pairs of the sorted list, less those of score <= 0.
TopPositive(sc) ==
    LET n == Len(sc)
        sorted == [k \in 1..n |->
                     CHOOSE i \in 1..n :
                        Cardinality({j \in 1..n : ScoreBefore(sc, j, i)}) = k - 1]
        top == SubSeq(sorted, 1, Min(TopK, n))
        Positive(i) == sc[i].num > 0
    IN SelectSeq(top, Positive)

select_context(article, context_articles) ==
    Only({TopPositive(scores) :
            scores \in {Scores(article, context_articles, Len(context_articles))}})

\* WithinBudget with <= for <.
WithinBudget_Inclusive(base_summary, extra) ==
    Len(base_summary) + Len(extra) + 3 <= Budget

\* Line 74
WithinBudget(base_summary, extra) ==
    Len(base_summary) + Len(extra) + 3 < Budget

\* Lines 68-76: the summary composed from the article and the records ctx.
compose(article, ctx) ==
    LET base_summary == summarize_text(article.summary, DefaultMaxChars)
        NonEmpty(t) == t # << >>
        rel_titles == SelectSeq([k \in 1..Len(ctx) |-> ctx[k].title], NonEmpty)
        extra == RelatedTo
                   \o Join(SubSeq(rel_titles, 1, Min(MaxTitles, Len(rel_titles))),
                           Semi)
    IN IF ctx = << >> THEN base_summary
       ELSE IF rel_titles # << >> /\ WithinBudget(base_summary, extra)
            THEN base_summary \o Bar \o extra
            ELSE base_summary

\* Lines 57-76.
build_rag_summary(article, context_articles) ==
    Only({compose(article, [k \in 1..Len(ctx) |-> context_articles[ctx[k]]]) :
            ctx \in {select_context(article, context_articles)}})

----------------------------------------------------------------------------
Init ==
    /\ MAX_TELEGRAM_MESSAGES_PER_RUN \in 0..MaxCap
    /\ pubOf \in [Ids -> Pubs]
    /\ feed \in Feeds
    /\ file \in InitFiles(pubOf)
    /\ pc = "idle"
    /\ seen_ids = {}
    /\ history = << >>
    /\ all_new = << >>
    /\ unseen = << >>
    /\ count_sent = 0
    /\ runs = 0
    /\ outcome = "none"
    /\ file0 = file
    /\ sent = << >>
    /\ writes = 0
    /\ prevSentIds = {}
    /\ fromEmpty = (file.kind = "absent")
    /\ call = [fn |-> "none"]
    /\ ret = << >>

config == <<MAX_TELEGRAM_MESSAGES_PER_RUN, pubOf, fromEmpty, call, ret>>
locals == <<seen_ids, history, all_new, unseen, count_sent>>

\* A new process starts while the sources serve f: lines 118-120.
StartRun(n, f) ==
    /\ pc = "idle"
    /\ runs' = n
    /\ feed' = f
    /\ file0' = file
    /\ prevSentIds' = {sent[i].id : i \in 1..Len(sent)}
    /\ sent' = << >>
    /\ writes' = 0
    /\ all_new' = << >>
    /\ unseen' = << >>
    /\ count_sent' = 0
    /\ IF file.kind = "garbled"
       THEN \* json.load raises: the process dies in load_state
            /\ pc' = "idle"
            /\ outcome' = "loadfail"
            /\ seen_ids' = {}
            /\ history' = << >>
       ELSE /\ pc' = "loaded"
            /\ outcome' = "running"
            /\ seen_ids' = StoredSeen(file)
            /\ history' = StoredArticles(file)
    /\ UNCHANGED <<config, file>>

LoadState == runs < MaxRuns /\ \E f \in Feeds : StartRun(runs + 1, f)

\* feedparser.parse + parse_entry over the served entries: lines 107-114
fetch_new_articles(f) ==
    [i \in 1..Len(f) |-> [id |-> f[i], published |-> pubOf[f[i]],
                          title |-> TitleOf[f[i]], summary |-> SummaryOf[f[i]]]]

\* FetchNewArticles without the early return of lines 125-127.
FetchNewArticles_NoEarlyReturn ==
    /\ pc = "loaded"
    /\ all_new' = fetch_new_articles(feed)
    /\ unseen' = SortDesc(FilterUnseen(all_new', seen_ids, 1), all_new')
    /\ pc' = "loop"
    /\ UNCHANGED <<config, feed, file, seen_ids, history, count_sent, runs,
                   outcome, file0, sent, writes, prevSentIds>>

\* Lines 122-131: fetch, filter, early return, sort.
FetchNewArticles ==
    /\ pc = "loaded"
    /\ all_new' = fetch_new_articles(feed)
    /\ LET u == FilterUnseen(all_new', seen_ids, 1) IN
         IF u = << >>
         THEN /\ unseen' = << >>
              /\ pc' = "idle"
              /\ outcome' = "nonew"
         ELSE /\ unseen' = SortDesc(u, all_new')
              /\ pc' = "loop"
              /\ outcome' = outcome
    /\ UNCHANGED <<config, feed, file, seen_ids, history, count_sent, runs,
                   file0, sent, writes, prevSentIds>>

LoopRuns ==
    /\ pc = "loop"
    /\ count_sent < Len(unseen)
    /\ count_sent < MAX_TELEGRAM_MESSAGES_PER_RUN

\* Deliver marking every fetched entry as seen, not only the one it sent.
Deliver_MarksAllFetched ==
    /\ LoopRuns
    /\ \E ok \in BOOLEAN :
         LET p == unseen[count_sent + 1]
             article == all_new[p]
             rag_summary == build_rag_summary(article, history)
             title == Strip(article.title)
         IN /\ sent' = Append(sent, [pos |-> p, id |-> article.id, ok |-> ok,
                                     corpus |-> history])
            /\ seen_ids' = seen_ids \cup {all_new[i].id : i \in 1..Len(all_new)}
            /\ history' = Append(history, [id |-> article.id,
                                           published |-> article.published,
                                           title |-> title,
                                           summary |-> rag_summary])
            /\ count_sent' = count_sent + 1
    /\ UNCHANGED <<config, feed, file, pc, all_new, unseen, runs, outcome,
                   file0, writes, prevSentIds>>

\* Deliver calling save_state inside the loop, after every record.
Deliver_SavesInLoop ==
    /\ LoopRuns
    /\ \E ok \in BOOLEAN :
         LET p == unseen[count_sent + 1]
             article == all_new[p]
             rag_summary == build_rag_summary(article, history)
             title == Strip(article.title)
         IN /\ sent' = Append(sent, [pos |-> p, id |-> article.id, ok |-> ok,
                                     corpus |-> history])
            /\ seen_ids' = seen_ids \cup {article.id}
            /\ history' = Append(history, [id |-> article.id,
                                           published |-> article.published,
                                           title |-> title,
                                           summary |-> rag_summary])
            /\ count_sent' = count_sent + 1
    /\ \E ids \in ListsOfSet(seen_ids') :
         file' = JsonFile(LedgerKeys, ids, history')
    /\ UNCHANGED <<config, feed, pc, all_new, unseen, runs, outcome,
                   file0, writes, prevSentIds>>

\* Deliver building every summary against the history as it was loaded.
Deliver_LoadedCorpus ==
    /\ LoopRuns
    /\ \E ok \in BOOLEAN :
         LET p == unseen[count_sent + 1]
             article == all_new[p]
             rag_summary == build_rag_summary(article, StoredArticles(file0))
             title == Strip(article.title)
         IN /\ sent' = Append(sent, [pos |-> p, id |-> article.id, ok |-> ok,
                                     corpus |-> StoredArticles(file0)])
            /\ seen_ids' = seen_ids \cup {article.id}
            /\ history' = Append(history, [id |-> article.id,
                                           published |-> article.published,
                                           title |-> title,
                                           summary |-> rag_summary])
            /\ count_sent' = count_sent + 1
    /\ UNCHANGED <<config, feed, file, pc, all_new, unseen, runs, outcome,
                   file0, writes, prevSentIds>>

\* Lines 134-163, one iteration in which requests.post returns a response;
\* ok is resp.ok, which send_telegram_message only prints.  The call logged
\* in sent keeps the list that line 138 hands to build_rag_summary.
Deliver ==
    /\ LoopRuns
    /\ \E ok \in BOOLEAN :
         LET p == unseen[count_sent + 1]
             article == all_new[p]
             rag_summary == build_rag_summary(article, history)
             title == Strip(article.title)
         IN /\ sent' = Append(sent, [pos |-> p, id |-> article.id, ok |-> ok,
                                     corpus |-> history])
            /\ seen_ids' = seen_ids \cup {article.id}
            /\ history' = Append(history, [id |-> article.id,
                                           published |-> article.published,
                                           title |-> title,
                                           summary |-> rag_summary])
            /\ count_sent' = count_sent + 1
    /\ UNCHANGED <<config, feed, file, pc, all_new, unseen, runs, outcome,
                   file0, writes, prevSentIds>>

\* Lines 152, 102: requests.post raises (no connection, timeout); nothing
\* catches it and the process dies.
DeliverRaises ==
    /\ LoopRuns
    /\ pc' = "idle"
    /\ outcome' = "raised"
    /\ UNCHANGED <<config, feed, file, locals, runs, file0, sent, writes,
                   prevSentIds>>

\* SaveState storing only the records appended by this run.
SaveState_OnlyThisRun ==
    /\ pc = "loop"
    /\ ~LoopRuns
    /\ \E ids \in ListsOfSet(seen_ids) :
         file' = JsonFile(LedgerKeys, ids,
                          SubSeq(history, Len(history) - count_sent + 1, Len(history)))
    /\ writes' = writes + 1
    /\ pc' = "idle"
    /\ outcome' = "saved"
    /\ UNCHANGED <<config, feed, locals, runs, file0, sent, prevSentIds>>

\* Lines 135-136 / end of the for loop, then 165-168.
SaveState ==
    /\ pc = "loop"
    /\ ~LoopRuns
    /\ \E ids \in ListsOfSet(seen_ids) :
         file' = JsonFile(LedgerKeys, ids, history)
    /\ writes' = writes + 1
    /\ pc' = "idle"
    /\ outcome' = "saved"
    /\ UNCHANGED <<config, feed, locals, runs, file0, sent, prevSentIds>>

Next ==
    \/ LoadState
    \/ FetchNewArticles
    \/ Deliver
    \/ DeliverRaises
    \/ SaveState

Spec == Init /\ [][Next]_vars

----------------------------------------------------------------------------
(***************************************************************************)
(* The same program scheduled again and again against sources that keep    *)
(* serving the same entries.  The run counter saturates, so any number of  *)
(* runs follow one another.                                                *)
(*                                                                         *)
(* Fairness: the scheduler keeps starting runs and a started process keeps *)
(* executing; the sink may raise at any call, but not for ever at the same *)
(* point of a run.                                                         *)
(***************************************************************************)
LoadStateAgain == StartRun(Min(runs + 1, MaxRuns), feed)

NextSameFeed ==
    \/ LoadStateAgain
    \/ FetchNewArticles
    \/ Deliver
    \/ DeliverRaises
    \/ SaveState

SameFeedFairness ==
    /\ WF_vars(LoadStateAgain \/ FetchNewArticles \/ SaveState)
    /\ \A k \in 0..(MaxCap - 1) : SF_vars(count_sent = k /\ Deliver)

SameFeedSpec == Init /\ [][NextSameFeed]_vars /\ SameFeedFairness

----------------------------------------------------------------------------
(***************************************************************************)
(* Calls of summarize_text, simple_similarity and build_rag_summary on     *)
(* every input of a bounded set.                                           *)
(***************************************************************************)
SummarizeCalls ==
    [fn : {"summarize_text"}, text : TextsOver({"a", " ", "."}, MaxText),
     max_chars : 0..MaxText]

SimilarityCalls ==
    [fn : {"simple_similarity"}, a : TextsOver({"a", "A", "b", " "}, MaxSim),
     b : TextsOver({"a", "A", "b", " "}, MaxSim)]

\* The lists of length at most n over the records rs.
Corpora(rs, n) == UNION {[1..k -> rs] : k \in 0..n}

\* Short entries and records, whose scores differ, tie and vanish.
RankEntries ==
    {[title |-> <<"a">>, summary |-> <<"b">>],
     [title |-> <<"c">>, summary |-> <<"a", " ", "b">>],
     [title |-> << >>, summary |-> << >>]}

RankRecords ==
    {[title |-> <<"a">>, summary |-> <<"b">>],
     [title |-> << >>,   summary |-> <<"a">>],
     [title |-> <<"c">>, summary |-> <<"a">>],
     [title |-> <<"c">>, summary |-> <<"c">>],
     [title |-> <<"b">>, summary |-> <<"c">>],
     [title |-> << >>,   summary |-> << >>]}

\* An entry whose summary is cut to DefaultMaxChars, and records whose titles
\* bring the composed summary just under, onto and over the budget.
Slack == Budget - (DefaultMaxChars + Len(Ellipsis)) - Len(Bar) - Len(RelatedTo)

BudgetEntries == {[title |-> <<"a">>, summary |-> Rep("a", DefaultMaxChars + 1)]}

BudgetRecords ==
    {[title |-> Rep("a", n), summary |-> <<"a">>] :
        n \in {0, Slack \div 2 - 2, Slack \div 2 - 1, Slack - 1, Slack}}

RagCalls ==
    [fn : {"build_rag_summary"}, article : RankEntries,
     context_articles : Corpora(RankRecords, MaxCorpus)]
      \cup [fn : {"build_rag_summary"}, article : BudgetEntries,
            context_articles : Corpora(BudgetRecords, TopK)]

\* The process is not running while a text function is exercised.
MachineIdle ==
    /\ MAX_TELEGRAM_MESSAGES_PER_RUN = 0
    /\ pubOf = [i \in Ids |-> << >>]
    /\ feed = << >>
    /\ file = AbsentFile
    /\ pc = "idle"
    /\ seen_ids = {}
    /\ history = << >>
    /\ all_new = << >>
    /\ unseen = << >>
    /\ count_sent = 0
    /\ runs = 0
    /\ outcome = "none"
    /\ file0 = file
    /\ sent = << >>
    /\ writes = 0
    /\ prevSentIds = {}
    /\ fromEmpty = TRUE

machine == <<MAX_TELEGRAM_MESSAGES_PER_RUN, pubOf, feed, file, pc, seen_ids,
             history, all_new, unseen, count_sent, runs, outcome, file0, sent,
             writes, prevSentIds, fromEmpty>>

TextInit ==
    /\ MachineIdle
    /\ call \in SummarizeCalls \cup SimilarityCalls \cup RagCalls
    /\ ret = << >>

SummarizeText ==
    /\ call.fn = "summarize_text"
    /\ ret = << >>
    /\ ret' = <<summarize_text(call.text, call.max_chars)>>
    /\ UNCHANGED <<machine, call>>

SimpleSimilarity ==
    /\ call.fn = "simple_similarity"
    /\ ret = << >>
    /\ ret' = <<simple_similarity(call.a, call.b)>>
    /\ UNCHANGED <<machine, call>>

\* ret is <<the value returned, the local ctx as positions of the corpus>>.
BuildRagSummary ==
    /\ call.fn = "build_rag_summary"
    /\ ret = << >>
    /\ ret' = <<build_rag_summary(call.article, call.context_articles),
                select_context(call.article, call.context_articles)>>
    /\ UNCHANGED <<machine, call>>

TextNext ==
    \/ SummarizeText
    \/ SimpleSimilarity
    \/ BuildRagSummary

TextSpec == TextInit /\ [][TextNext]_vars

----------------------------------------------------------------------------
(***************************************************************************)
(* Vocabulary of the claims.                                               *)
(***************************************************************************)
\* The run got past load_state and the fetch, and is over.
RunEnded == pc = "idle" /\ outcome \in {"nonew", "raised", "saved"}

\* STATE_FILE holds a whole ledger.
WellFormed(f) == f.kind = "json" /\ f.keys = LedgerKeys

SentIds == [i \in 1..Len(sent) |-> sent[i].id]

ArticleIds(f) == [i \in 1..Len(StoredArticles(f)) |-> StoredArticles(f)[i].id]

\* The records the current/last run appended to history.
Appended == SubSeq(history, Len(StoredArticles(file0)) + 1, Len(history))

\* Every entry the sources serve is marked seen in f and has its record.
Drained(f) ==
    \A i \in 1..Len(feed) :
        feed[i] \in StoredSeen(f) /\ feed[i] \in Range(ArticleIds(f))

Pub(p) == parse_pub(all_new[p])

----------------------------------------------------------------------------
\* C1: over two successive runs against the same feed content every entry id
\* is handed to the sink at most once, and a run that starts with every
\* fetched id already recorded sends nothing.
C1_Idempotent ==
    /\ NoDup(SentIds)
    /\ \A i \in 1..Len(sent) : sent[i].id \notin prevSentIds
    /\ ((\A i \in 1..Len(feed) : feed[i] \in StoredSeen(file0)) => sent = << >>)

\* C2: an entry whose send the sink reported as failed is not added to
\* seen_ids and gets no history record.
C2_FailedSendNotRecorded ==
    \A i \in 1..Len(sent) :
        ~sent[i].ok =>
            /\ sent[i].id \notin seen_ids
            /\ \A j \in 1..Len(Appended) : Appended[j].id # sent[i].id

C4_CapExact ==
    RunEnded =>
        LET n == Len(unseen)
            m == Min(n, MAX_TELEGRAM_MESSAGES_PER_RUN)
        IN /\ Len(sent) = m
           /\ Len(Appended) = m
           /\ \A k \in 1..Len(sent) : sent[k].pos = unseen[k]
           /\ \A k \in 1..(n - 1) : ~LexLess(Pub(unseen[k]), Pub(unseen[k + 1]))
           /\ \A k \in (m + 1)..n : all_new[unseen[k]].id \notin seen_ids

\* C5: starting from no ledger file, the stored ledger always has every
\* history id in seen_ids, each id once in seen_ids, and at most one history
\* record per id.
C5_LedgerInvariant ==
    fromEmpty =>
        /\ Range(ArticleIds(file)) \subseteq StoredSeen(file)
        /\ NoDup(file.seen_ids)
        /\ NoDup(ArticleIds(file))

\* C6: a run that persists leaves the history stored before it as a prefix
\* of the history stored after it, and the stored seen ids only grow.
C6_AppendOnly ==
    outcome = "saved" =>
        /\ IsPrefix(StoredArticles(file0), StoredArticles(file))
        /\ StoredSeen(file0) \subseteq StoredSeen(file)

C6_Witness ==
    /\ outcome = "saved"
    /\ file0.kind = "json"
    /\ Len(StoredArticles(file0)) >= 2
    /\ Len(StoredArticles(file)) > Len(StoredArticles(file0))

\* C7: a ledger file that exists but is not a whole readable ledger makes
\* the run fail with nothing sent and nothing written, and no seen_ids or
\* history is defaulted to empty.
C7_CorruptFailsLoudly ==
    (outcome # "none" /\ file0.kind # "absent" /\ ~WellFormed(file0)) =>
        /\ outcome = "loadfail"
        /\ sent = << >>
        /\ writes = 0
        /\ file = file0

\* C8: whatever the sink does with one entry, the run completes: the final
\* persist is reached and the entries delivered in the run are stored.
C8_FailureNeverAborts ==
    (RunEnded /\ unseen # << >>) =>
        /\ outcome = "saved"
        /\ Range(SentIds) \subseteq StoredSeen(file)

C10_SendOrder ==
    \A i, j \in 1..Len(sent) :
        i < j =>
            /\ ~LexLess(Pub(sent[i].pos), Pub(sent[j].pos))
            /\ (Pub(sent[i].pos) = Pub(sent[j].pos) => sent[i].pos < sent[j].pos)

\* The two entries published "2" are sent, in fetch order, ahead of the
\* entry published "10" that was fetched before them.
C10_Witness ==
    /\ Len(sent) = 2
    /\ Len(all_new) = 3
    /\ Pub(1) = <<1, 0>>
    /\ Pub(2) = <<2>>
    /\ Pub(3) = <<2>>
    /\ sent[1].pos = 2
    /\ sent[2].pos = 3

----------------------------------------------------------------------------
\* The entries of the current/last run that the sink accepted, in send order.
RECURSIVE DeliveredIds(_)
DeliveredIds(k) ==
    IF k = 0 THEN << >>
    ELSE IF sent[k].ok THEN Append(DeliveredIds(k - 1), sent[k].id)
         ELSE DeliveredIds(k - 1)

\* C16: the records a run appends to history are, one to one and in order,
\* the entries it delivered, and seen_ids grows by exactly their ids.
C16_RecordsMatchDeliveries ==
    outcome \in {"running", "nonew", "raised", "saved"} =>
        LET delivered == DeliveredIds(Len(sent)) IN
            /\ Len(Appended) = Len(delivered)
            /\ \A k \in 1..Len(Appended) : Appended[k].id = delivered[k]
            /\ seen_ids = StoredSeen(file0) \cup Range(delivered)

\* C17: until the final persist of a run the stored ledger is the one that
\* was stored when the run started.
C17_NoWriteBeforePersist ==
    outcome # "saved" => file = file0

\* In the middle of the loop, or after an aborted run: the ledger in memory
\* has grown and the file has not been touched.
C17_Witness ==
    /\ outcome \in {"running", "raised"}
    /\ Len(sent) >= 1
    /\ history # StoredArticles(file)
    /\ file = file0
    /\ writes = 0

----------------------------------------------------------------------------
Summarized == call.fn = "summarize_text" /\ ret # << >>
Scored == call.fn = "simple_similarity" /\ ret # << >>

Built == call.fn = "build_rag_summary" /\ ret # << >>

\* C11: the context is the first 3 records of the corpus in descending order
\* of score, ties in corpus order, less the records of score <= 0: at most 3
\* records, all of positive score, in that order, and a record is chosen
\* exactly when its score is positive and fewer than 3 records outrank it.
C11_ContextSelection ==
    Built =>
        LET corpus == call.context_articles
            ctx == ret[2]
            score == [i \in 1..Len(corpus) |->
                        simple_similarity(RecordText(call.article),
                                          RecordText(corpus[i]))]
            Outranks(j, i) ==
                \/ score[j].num * score[i].den > score[i].num * score[j].den
                \/ /\ score[j].num * score[i].den = score[i].num * score[j].den
                   /\ j < i
        IN /\ Len(ctx) <= 3
           /\ \A k \in 1..Len(ctx) :
                 ctx[k] \in 1..Len(corpus) /\ score[ctx[k]].num > 0
           /\ \A k \in 1..(Len(ctx) - 1) : Outranks(ctx[k], ctx[k + 1])
           /\ \A i \in 1..Len(corpus) :
                 i \in Range(ctx) <=>
                    /\ score[i].num > 0
                    /\ Cardinality({j \in 1..Len(corpus) : Outranks(j, i)}) < 3

\* Four records of positive score, the best of them second in the corpus and
\* the last two of equal score: the best comes first in the context, the
\* earlier of the two equal ones is its third and the later one is left out.
C11_Witness ==
    /\ Built
    /\ Len(call.context_articles) >= 4
    /\ Len(ret[2]) = 3
    /\ ret[2][1] > ret[2][2]
    /\ \E i \in 1..Len(call.context_articles) :
          /\ i > ret[2][3]
          /\ simple_similarity(RecordText(call.article),
                               RecordText(call.context_articles[i]))
               = simple_similarity(RecordText(call.article),
                                   RecordText(call.context_articles[ret[2][3]]))

\* The non-empty titles of the context ret[2] of the call, in context order.
ContextTitles ==
    LET NonEmpty(t) == t # << >> IN
        SelectSeq([k \in 1..Len(ret[2]) |-> call.context_articles[ret[2][k]].title],
                  NonEmpty)

\* "Related to: " and the first 2 of the titles ts joined by "; ".
Suffix(ts) ==
    <<"R", "e", "l", "a", "t", "e", "d", " ", "t", "o", ":", " ">>
       \o (IF Len(ts) = 0 THEN << >>
           ELSE IF Len(ts) = 1 THEN ts[1]
           ELSE ts[1] \o <<";", " ">> \o ts[2])

\* C12: the composed summary is base or base + " | " + suffix; it is the
\* second exactly when the context has a non-empty title and
\* len(base) + len(suffix) + 3 < 350, and it is never longer than
\* len(base) + 353.
C12_Composition ==
    Built =>
        LET out == ret[1]
            base == summarize_text(call.article.summary, 300)
            suffix == Suffix(ContextTitles)
            fits == Len(base) + Len(suffix) + 3 < 350
        IN /\ out \in {base, base \o <<" ", "|", " ">> \o suffix}
           /\ (out # base => ContextTitles # << >> /\ fits)
           /\ (ret[2] = << >> \/ ContextTitles = << >> \/ ~fits => out = base)
           /\ Len(out) <= Len(base) + 353

\* Two titles that bring the length to 350 exactly: the budget check fails
\* and the summary is the base alone.
C12_Witness ==
    /\ Built
    /\ Len(ContextTitles) >= 2
    /\ Len(summarize_text(call.article.summary, 300))
          + Len(Suffix(ContextTitles)) + 3 = 350
    /\ ret[1] = summarize_text(call.article.summary, 300)

\* C13 as stated: the summary has at most N + 3 characters, is the join of
\* the first 3 sentences when that has at most N characters, and is never
\* shorter than N characters when the join is longer.
C13_SummaryBounds ==
    Summarized =>
        LET out == ret[1]
            N == call.max_chars
            joined == JoinFirst3(call.text)
        IN /\ Len(out) <= N + 3
           /\ (Len(joined) <= N => out = joined)
           /\ (Len(joined) > N => Len(out) >= N)

\* C13 amended: the summary has at most N + 3 characters and is the join of
\* the first 3 sentences when that has at most N characters; when the join is
\* longer the summary is "..." after the first N characters of the join less
\* their trailing whitespace, so it has between 3 and N + 3 characters.
C13_SummaryAmended ==
    Summarized =>
        LET out == ret[1]
            N == call.max_chars
            joined == JoinFirst3(call.text)
        IN /\ Len(out) <= N + 3
           /\ (Len(joined) <= N => out = joined)
           /\ (Len(joined) > N =>
                 \E m \in 0..N :
                    /\ out = SubSeq(joined, 1, m) \o <<".", ".", ".">>
                    /\ (m > 0 => joined[m] \notin Spaces)
                    /\ \A k \in (m + 1)..N : joined[k] \in Spaces)

\* A cut that ends in more than three blanks: the summary is shorter than N.
C13_Witness ==
    /\ Summarized
    /\ Len(JoinFirst3(call.text)) > call.max_chars
    /\ Len(ret[1]) < call.max_chars

\* C14: simple_similarity(a, b) equals simple_similarity(b, a).
C14_Symmetric ==
    Scored => ret[1] = simple_similarity(call.b, call.a)

\* Two texts with token sets of different sizes that share a token.
C14_Witness ==
    /\ Scored
    /\ ret[1].num > 0
    /\ Cardinality(text_to_tokens(call.a)) < Cardinality(text_to_tokens(call.b))

\* C15: the similarity is |A \cap B| / (|A| + |B|) over the two token sets,
\* lies in [0, 1], is 0 when a token set is empty and is positive exactly
\* when the two sets share a token.
C15_SimilarityValue ==
    Scored =>
        LET A == text_to_tokens(call.a)
            B == text_to_tokens(call.b)
            x == ret[1]
        IN /\ x.den > 0
           /\ 0 <= x.num
           /\ x.num <= x.den
           /\ (A = {} \/ B = {} => x.num = 0)
           /\ (x.num > 0 <=> A \cap B # {})
           /\ (A # {} /\ B # {} =>
                 x.num * (Cardinality(A) + Cardinality(B))
                    = Cardinality(A \cap B) * x.den)

\* Texts that differ in case and spacing only: the largest value, 1/2.
C15_Witness ==
    /\ Scored
    /\ call.a # call.b
    /\ "A" \in Range(call.a)
    /\ Cardinality(text_to_tokens(call.a)) = 2
    /\ 2 * ret[1].num = ret[1].den

\* C18: the corpus given to build_rag_summary for the k-th entry processed
\* in a run is the history loaded at the start of the run followed by the
\* k - 1 records appended earlier in the run, and the k-th record keeps the
\* summary built against it.
C18_CorpusGrowsInRun ==
    \A k \in 1..Len(sent) :
        /\ sent[k].corpus = StoredArticles(file0) \o SubSeq(Appended, 1, k - 1)
        /\ Appended[k].summary =
              build_rag_summary(all_new[sent[k].pos], sent[k].corpus)

\* A run that loaded no history: the summary of its second entry names the
\* title of the entry it delivered first.
C18_Witness ==
    /\ StoredArticles(file0) = << >>
    /\ Len(sent) >= 2
    /\ sent[1].ok
    /\ Appended[1].title # << >>
    /\ Appended[2].summary =
          summarize_text(all_new[sent[2].pos].summary, DefaultMaxChars)
             \o Bar \o RelatedTo \o Appended[1].title

=============================================================================
